---------------------------- MODULE Spec2Model ----------------------------
(***************************************************************************)
(* A model of lib/hooks.js: the hook catalog (hookTypes), the per-host     *)
(* hook store (this.options.hooks), the registration operations addHook,   *)
(* removeHook and hasHook, and the dispatcher runHooks.                    *)
(*                                                                         *)
(* A store is a function from the hook-type names that are keys of         *)
(* this.options.hooks to arrays (sequences) of entries; a key that is not  *)
(* in the DOMAIN is a key the JavaScript object does not have (undefined). *)
(* An entry is a record [name, fn]: name = NoName is a bare callback       *)
(* (typeof hook === 'function'), any other name is the object {name, fn}   *)
(* (typeof hook === 'object').                                             *)
(***************************************************************************)
EXTENDS Integers, Sequences, FiniteSets, TLC

VARIABLES
    scope,    \* the hook-type names the program's calls are made with
    callers,  \* the hosts the program's calls are made on
    hooks,    \* hooks[h]: this.options.hooks of host h
    run,      \* the dispatch (one runHooks call) in flight, and its record
    last      \* the last registration call and what it returned

vars == <<scope, callers, hooks, run, last>>

---------------------------------------------------------------------------
(* Bounds of the model *)

\* the number of registration calls (addHook, removeHook, hasHook) of a run
\* without dispatches
MaxCalls == 3

\* the number of registration calls of a run with dispatches
MaxRunCalls == 1

\* the number of callbacks a host's construction-time configuration gives for
\* a hook type; the configurations of all hosts give one more at most
MaxSetup == 2

---------------------------------------------------------------------------
(* The hosts: a Sequelize instance, and models defined on it.  A model's   *)
(* `sequelize` property is the instance; the instance has none.            *)

NoHost == "undefined"

Hosts == {"sequelize", "User", "Task"}

\* the hosts of a run: the instance and a model, or two models of the instance
HostSets == { {"sequelize", "User"}, {"User", "Task"} }

sequelizeOf(h) == IF h = "sequelize" THEN NoHost ELSE "sequelize"

---------------------------------------------------------------------------
(* hookTypes, lines 8-49.  An absent `proxies` is the empty sequence, an   *)
(* absent `sync` or `noModel` is FALSE.                                    *)

CatalogNames ==
    { "beforeValidate", "afterValidate", "validationFailed",
      "beforeCreate", "afterCreate", "beforeDestroy", "afterDestroy",
      "beforeRestore", "afterRestore", "beforeUpdate", "afterUpdate",
      "beforeSave", "afterSave", "beforeUpsert", "afterUpsert",
      "beforeBulkCreate", "afterBulkCreate", "beforeBulkDestroy",
      "afterBulkDestroy", "beforeBulkRestore", "afterBulkRestore",
      "beforeBulkUpdate", "afterBulkUpdate", "beforeFind",
      "beforeFindAfterExpandIncludeAll", "beforeFindAfterOptions",
      "afterFind", "beforeCount", "beforeDefine", "afterDefine",
      "beforeInit", "afterInit", "beforeAssociate", "afterAssociate",
      "beforeConnect", "afterConnect", "beforeSync", "afterSync",
      "beforeBulkSync", "afterBulkSync" }

hookTypes ==
    [ t \in CatalogNames |->
        [ params  |-> IF t = "validationFailed" THEN 3
                      ELSE IF t \in { "beforeBulkDestroy", "afterBulkDestroy",
                                      "beforeBulkRestore", "afterBulkRestore",
                                      "beforeBulkUpdate", "afterBulkUpdate",
                                      "beforeFind",
                                      "beforeFindAfterExpandIncludeAll",
                                      "beforeFindAfterOptions", "beforeCount",
                                      "afterDefine", "afterInit",
                                      "beforeConnect", "beforeSync",
                                      "afterSync", "beforeBulkSync",
                                      "afterBulkSync" } THEN 1
                      ELSE 2,
          sync    |-> t \in { "beforeDefine", "afterDefine", "beforeInit",
                              "afterInit", "beforeAssociate",
                              "afterAssociate" },
          noModel |-> t \in { "beforeDefine", "afterDefine", "beforeInit",
                              "afterInit", "beforeConnect", "afterConnect",
                              "beforeBulkSync", "afterBulkSync" },
          proxies |-> IF t = "beforeSave"
                        THEN <<"beforeUpdate", "beforeCreate">>
                      ELSE IF t = "afterSave"
                        THEN <<"afterUpdate", "afterCreate">>
                      ELSE <<>> ] ]

\* hookTypes[hookType] is defined (truthy)
Known(hookType) == hookType \in DOMAIN hookTypes

---------------------------------------------------------------------------
(* Values *)

NoName == "null"

Entry(name, fn) == [name |-> name, fn |-> fn]

IsObject(hook) == hook.name # NoName
IsFunction(hook) == hook.name = NoName

\* what a registration call threw
NoError == "none"
TypeError == "TypeError"
RestrictionError == "Error: is only applicable on a sequelize instance or static"

\* what a dispatch failed with: nothing, the error of line 86, or what the
\* hook at index idx of the dispatch's array threw or rejected with
NoFailure == [idx |-> 0, what |-> "none"]
ArgumentError == [idx |-> 0, what |-> "runHooks requires at least 1 argument"]
HookError(idx, fn) == [idx |-> idx, what |-> fn]

EmptyStore == [t \in {} |-> <<>>]

Range(s) == { s[i] : i \in 1..Len(s) }

---------------------------------------------------------------------------
(* getProxiedHooks, lines 60-64: the proxies of a hook type and the type   *)
(* itself.  hookTypes[hookType].proxies on a name the catalog does not     *)
(* hold reads a property of undefined: a TypeError.                        *)

\* lines 60-64 without the type itself: the proxies alone
getProxiedHooksOnly(hookType) ==
    IF ~Known(hookType) THEN [threw |-> TypeError, types |-> <<>>]
    ELSE IF hookTypes[hookType].proxies # <<>>
      THEN [threw |-> NoError, types |-> hookTypes[hookType].proxies]
      ELSE [threw |-> NoError, types |-> <<hookType>>]

getProxiedHooks(hookType) ==
    IF ~Known(hookType) THEN [threw |-> TypeError, types |-> <<>>]
    ELSE IF hookTypes[hookType].proxies # <<>>
      THEN [threw |-> NoError,
            types |-> hookTypes[hookType].proxies \o <<hookType>>]
      ELSE [threw |-> NoError, types |-> <<hookType>>]

(* getHooks, lines 66-68, on a store *)
getHooks(store, hookType) ==
    IF hookType \in DOMAIN store THEN store[hookType] ELSE <<>>

\* lines 196-198 looking at the lists of the type's proxies as well
hasHookProxied(store, hookType) ==
    IF \E t \in Range(getProxiedHooks(hookType).types) \cup {hookType} :
         t \in DOMAIN store /\ Len(store[t]) # 0
      THEN "true"
    ELSE IF hookType \notin DOMAIN store THEN "undefined" ELSE "false"

(* hasHook, lines 196-198: undefined for a key the store does not have *)
hasHook(store, hookType) ==
    IF hookType \notin DOMAIN store THEN "undefined"
    ELSE IF Len(store[hookType]) # 0 THEN "true" ELSE "false"

Truthy(v) == v = "true"


---------------------------------------------------------------------------
(* addHook, lines 134-154, on the store of host h.  The call              *)
(* addHook(hookType, fn) is name = NoName: lines 135-138 move the function *)
(* to fn and null the name.  Returns what was thrown and the store the     *)
(* call leaves.                                                            *)

\* lines 147-151 on the type alone: getProxiedHooks lists it last
pushEachOwn(store, types, entry) ==
    LET type == types[Len(types)]
    IN  (type :> Append(getHooks(store, type), entry)) @@ store

\* lines 147-151 with unshift for push: the entry goes to the front
RECURSIVE pushEachFront(_, _, _)
pushEachFront(store, types, entry) ==
    IF types = <<>> THEN store
    ELSE LET type == Head(types)
             arr  == getHooks(store, type)
         IN  pushEachFront((type :> (<<entry>> \o arr)) @@ store, Tail(types),
                           entry)

\* lines 147-151: push the entry on each type's array and store the array
RECURSIVE pushEach(_, _, _)
pushEach(store, types, entry) ==
    IF types = <<>> THEN store
    ELSE LET type == Head(types)
             arr  == getHooks(store, type)
         IN  pushEach((type :> Append(arr, entry)) @@ store, Tail(types), entry)

\* lines 134-154 without the test of line 140
addHookUnrestricted(h, store, hookType, name, fn) ==
    LET proxied == getProxiedHooks(hookType)
    IN  IF proxied.threw # NoError
          THEN [threw |-> proxied.threw, store |-> store]
          ELSE [threw |-> NoError,
                store |-> pushEach(store, proxied.types,
                                   IF name # NoName THEN Entry(name, fn)
                                   ELSE Entry(NoName, fn))]

addHook(h, store, hookType, name, fn) ==
    IF Known(hookType) /\ hookTypes[hookType].noModel /\ sequelizeOf(h) # NoHost
      THEN [threw |-> RestrictionError, store |-> store]
    ELSE LET proxied == getProxiedHooks(hookType)
         IN  IF proxied.threw # NoError
               THEN [threw |-> proxied.threw, store |-> store]
               ELSE [threw |-> NoError,
                     store |-> pushEach(store, proxied.types,
                                        IF name # NoName THEN Entry(name, fn)
                                        ELSE Entry(NoName, fn))]

---------------------------------------------------------------------------
(* removeHook, lines 162-187.  The key is a function reference             *)
(* (isReference) or a name.                                                *)

NoFn == "nofn"

\* lines 175-183 comparing the callback an entry holds, bare or named
keepHookByCallback(hook, isReference, key) ==
    IF isReference THEN hook.fn # key
    ELSE IF IsObject(hook) THEN hook.name # key
    ELSE TRUE

\* the filter callback, lines 175-183: TRUE keeps the hook
keepHook(hook, isReference, key) ==
    IF isReference /\ IsFunction(hook) THEN hook.fn # key
    ELSE IF ~isReference /\ IsObject(hook) THEN hook.name # key
    ELSE TRUE

RECURSIVE filterSeq(_, _, _)
filterSeq(arr, isReference, key) ==
    IF arr = <<>> THEN <<>>
    ELSE IF keepHook(Head(arr), isReference, key)
      THEN <<Head(arr)>> \o filterSeq(Tail(arr), isReference, key)
      ELSE filterSeq(Tail(arr), isReference, key)

\* lines 174-184: undefined.filter is a TypeError, and leaves the arrays
\* already replaced as they are
RECURSIVE filterEach(_, _, _, _)
filterEach(store, types, isReference, key) ==
    IF types = <<>> THEN [threw |-> NoError, store |-> store]
    ELSE LET type == Head(types)
         IN  IF type \notin DOMAIN store
               THEN [threw |-> TypeError, store |-> store]
               ELSE filterEach(
                      (type :> filterSeq(store[type], isReference, key)) @@ store,
                      Tail(types), isReference, key)

\* lines 162-187 without the proxies: the type's own list alone is filtered
removeHookOwnList(store, hookType, isReference, key) ==
    IF ~Truthy(hasHook(store, hookType))
      THEN [threw |-> NoError, store |-> store]
      ELSE filterEach(store, <<hookType>>, isReference, key)

\* lines 162-187 without the test of line 165
removeHookUnguarded(store, hookType, isReference, key) ==
    LET proxied == getProxiedHooks(hookType)
    IN  IF proxied.threw # NoError
          THEN [threw |-> proxied.threw, store |-> store]
          ELSE filterEach(store, proxied.types, isReference, key)

removeHook(store, hookType, isReference, key) ==
    IF ~Truthy(hasHook(store, hookType))
      THEN [threw |-> NoError, store |-> store]
    ELSE LET proxied == getProxiedHooks(hookType)
         IN  IF proxied.threw # NoError
               THEN [threw |-> proxied.threw, store |-> store]
               ELSE filterEach(store, proxied.types, isReference, key)

---------------------------------------------------------------------------
(* _setupHooks, lines 77-83, on the store of host h: the configuration is  *)
(* a sequence of <<hook name, isArray, value>> in the object's key order,   *)
(* the value being a sequence of callbacks when isArray and one callback   *)
(* when not.  What addHook throws leaves _setupHooks, with the entries     *)
(* added so far.                                                           *)

\* line 80
hooksArrayOf(isArray, value) == IF ~isArray THEN <<value>> ELSE value

RECURSIVE addEach(_, _, _, _)
addEach(h, store, hookName, hooksArray) ==
    IF hooksArray = <<>> THEN [threw |-> NoError, store |-> store]
    ELSE LET r == addHook(h, store, hookName, NoName, Head(hooksArray))
         IN  IF r.threw # NoError THEN r
             ELSE addEach(h, r.store, hookName, Tail(hooksArray))

RECURSIVE setupEach(_, _, _)
setupEach(h, store, config) ==
    IF config = <<>> THEN [threw |-> NoError, store |-> store]
    ELSE LET r == addEach(h, store, Head(config)[1],
                          hooksArrayOf(Head(config)[2], Head(config)[3]))
         IN  IF r.threw # NoError THEN r
             ELSE setupEach(h, r.store, Tail(config))

setupHooks(h, config) == setupEach(h, EmptyStore, config)

---------------------------------------------------------------------------
(* The inputs of the calls *)

Fns == {"f1", "f2"}
Names == {"n1"}

\* addHook(hookType, fn) and addHook(hookType, name, fn)
AddInputs == [name : Names \cup {NoName}, fn : Fns]

\* removeHook(hookType, name) and removeHook(hookType, fn)
Keys == [name : Names, fn : {NoFn}] \cup [name : {NoName}, fn : Fns]

\* the hook types of a run of registration calls: an alias source with one
\* of its targets (the other is a key of the stores all the same), the
\* restricted and the synchronous types, and a name the catalog does not hold
TypeSets ==
    { {"beforeSave", "beforeUpdate"}, {"afterSave", "afterCreate"},
      {"afterInit", "customHook"}, {"beforeConnect", "beforeAssociate"} }

\* the hook type of a run with dispatches
RunTypes == {"beforeUpdate", "afterInit", "beforeAssociate", "customHook"}

NoType == "undefined"

\* no dispatch yet.  pc: "sync" inside the loop of lines 105-112; "pending"
\* between two hooks of Promise.each and "running" while it waits for one;
\* "returned" and "threw" end a synchronous call, "resolved" and "rejected"
\* settle the promise runHooks returned.  n: the entries resolved at the call.
IdleRun ==
    [ pc |-> "idle", host |-> NoHost, kind |-> "nocall", hookType |-> NoType,
      sync |-> FALSE, hooks |-> <<>>, same |-> FALSE, args |-> "none",
      n |-> 0, i |-> 0, started |-> <<>>, active |-> {}, log |-> <<>>,
      error |-> NoFailure ]

NoCall ==
    [ n |-> 0, op |-> "none", host |-> NoHost, hookType |-> NoType,
      name |-> NoName, fn |-> NoFn, config |-> <<>>, threw |-> NoError,
      ret |-> "undefined", fresh |-> FALSE, changed |-> FALSE ]

\* the hosts are constructed with no hooks configuration
InitReg ==
    /\ scope \in TypeSets
    /\ callers = {"sequelize", "User"}
    /\ hooks = [h \in Hosts |-> EmptyStore]
    /\ run = IdleRun
    /\ last = NoCall

\* the callbacks a configuration gives for the hook type
SetupLists ==
    { SubSeq(<<"f1", "f2", "f1", "f2", "f1", "f2">>, 1, k) : k \in 0..MaxSetup }

Config(hookType, fns) ==
    IF fns = <<>> THEN <<>> ELSE <<<<hookType, TRUE, fns>>>>

\* the number of callbacks the configurations of the hosts give
RECURSIVE Total(_, _)
Total(cfg, hs) ==
    IF hs = {} THEN 0
    ELSE LET h == CHOOSE x \in hs : TRUE
         IN  Len(cfg[h]) + Total(cfg, hs \ {h})

\* the hosts are constructed with a hooks configuration that _setupHooks
\* accepts; the run with two models of the instance is one of beforeUpdate,
\* with one callback a host at most
Init ==
    /\ scope \in { {t} : t \in RunTypes }
    /\ callers \in HostSets
    /\ "Task" \in callers => scope = {"beforeUpdate"}
    /\ \E t \in scope :
         \E cfg \in [Hosts -> SetupLists] :
           /\ Total(cfg, Hosts) <= MaxSetup + 1
           /\ "Task" \notin callers => cfg["Task"] = <<>>
           /\ "Task" \in callers => \A h \in Hosts : Len(cfg[h]) <= 1
           /\ \A h \in Hosts : setupHooks(h, Config(t, cfg[h])).threw = NoError
           /\ hooks = [h \in Hosts |-> setupHooks(h, Config(t, cfg[h])).store]
    /\ run = IdleRun
    /\ last = NoCall

---------------------------------------------------------------------------
(* The registration calls *)

\* the registration calls a run may still make
CallsLeft ==
    IF scope \in TypeSets THEN last.n < MaxCalls ELSE last.n < MaxRunCalls

\* no list of the type or of its proxies holds an entry
Fresh(store, hookType) ==
    /\ ~Truthy(hasHook(store, hookType))
    /\ Known(hookType) =>
         \A a \in Range(hookTypes[hookType].proxies) : ~Truthy(hasHook(store, a))

\* JavaScript runs one call at a time: while the loop of lines 105-112 runs,
\* a call comes from a hook the loop has called
CallerRuns == run.pc = "sync" => run.i > 0

AddHook(h, hookType, name, fn) ==
    LET r       == addHook(h, hooks[h], hookType, name, fn)
        proxied == getProxiedHooks(hookType)
    IN  /\ CallsLeft
        /\ CallerRuns
        /\ hooks' = [hooks EXCEPT ![h] = r.store]
        \* the array the loop iterates is the array the store holds: the
        \* loop sees the push
        /\ run' = IF r.threw = NoError /\ run.same /\ run.pc = "sync"
                     /\ run.host = h
                     /\ run.hookType \in Range(proxied.types)
                    THEN [run EXCEPT !.hooks = r.store[run.hookType]]
                    ELSE run
        /\ last' = [ n |-> last.n + 1, op |-> "addHook", host |-> h,
                     hookType |-> hookType, name |-> name, fn |-> fn,
                     config |-> <<>>,
                     threw |-> r.threw,
                     ret |-> IF r.threw = NoError THEN h ELSE "undefined",
                     fresh |-> Fresh(hooks[h], hookType),
                     changed |-> r.store # hooks[h] ]
        /\ UNCHANGED <<scope, callers>>

\* removeHook taking the entries out of the stored arrays themselves (splice
\* for filter): a loop that iterates a stored array sees the removal
RemoveHookInPlace(h, hookType, name, fn) ==
    LET isReference == fn # NoFn
        r == removeHook(hooks[h], hookType, isReference,
                        IF isReference THEN fn ELSE name)
    IN  /\ CallsLeft
        /\ CallerRuns
        /\ hooks' = [hooks EXCEPT ![h] = r.store]
        /\ run' = IF run.same /\ run.pc = "sync" /\ run.host = h
                     /\ run.hookType \in DOMAIN r.store
                    THEN [run EXCEPT !.hooks = r.store[run.hookType]]
                    ELSE run
        /\ last' = [ n |-> last.n + 1, op |-> "removeHook", host |-> h,
                     hookType |-> hookType, name |-> name, fn |-> fn,
                     config |-> <<>>,
                     threw |-> r.threw,
                     ret |-> IF r.threw = NoError THEN h ELSE "undefined",
                     fresh |-> FALSE, changed |-> r.store # hooks[h] ]
        /\ UNCHANGED <<scope, callers>>

\* removeHook(hookType, fn) is name = NoName; removeHook(hookType, name) is
\* fn = NoFn
RemoveHook(h, hookType, name, fn) ==
    LET isReference == fn # NoFn
        r == removeHook(hooks[h], hookType, isReference,
                        IF isReference THEN fn ELSE name)
    IN  /\ CallsLeft
        /\ CallerRuns
        /\ hooks' = [hooks EXCEPT ![h] = r.store]
        \* filter makes new arrays: a dispatch keeps the one it has
        /\ run' = IF run.same /\ run.host = h
                     /\ Truthy(hasHook(hooks[h], hookType))
                     /\ run.hookType \in Range(getProxiedHooks(hookType).types)
                    THEN [run EXCEPT !.same = FALSE]
                    ELSE run
        /\ last' = [ n |-> last.n + 1, op |-> "removeHook", host |-> h,
                     hookType |-> hookType, name |-> name, fn |-> fn,
                     config |-> <<>>,
                     threw |-> r.threw,
                     ret |-> IF r.threw = NoError THEN h ELSE "undefined",
                     fresh |-> FALSE, changed |-> r.store # hooks[h] ]
        /\ UNCHANGED <<scope, callers>>

\* the configurations _setupHooks is called with: none, one callback for a
\* type, a list for one type and one callback for the other
SetupConfigs ==
    {<<>>}
      \cup { <<<<t, FALSE, "f1">>>> : t \in scope }
      \cup UNION { { <<<<t, TRUE, <<"f2", "f1">>>>, <<u, FALSE, "f1">>>> :
                       u \in scope \ {t} } : t \in scope }

\* _setupHooks(config) on host h
SetupHooks(h, config) ==
    LET r == setupHooks(h, config)
    IN  /\ CallsLeft
        /\ CallerRuns
        /\ hooks' = [hooks EXCEPT ![h] = r.store]
        \* line 78 makes a new store: a dispatch keeps the array it has
        /\ run' = IF run.same /\ run.host = h
                    THEN [run EXCEPT !.same = FALSE]
                    ELSE run
        /\ last' = [ NoCall EXCEPT
                       !.n = last.n + 1, !.op = "_setupHooks", !.host = h,
                       !.config = config, !.threw = r.threw,
                       !.changed = r.store # hooks[h] ]
        /\ UNCHANGED <<scope, callers>>

HasHook(h, hookType) ==
    /\ CallsLeft
    /\ CallerRuns
    /\ last' = [ n |-> last.n + 1, op |-> "hasHook", host |-> h,
                 hookType |-> hookType, name |-> NoName, fn |-> NoFn,
                 config |-> <<>>,
                 threw |-> NoError, ret |-> hasHook(hooks[h], hookType),
                 fresh |-> FALSE, changed |-> FALSE ]
    /\ UNCHANGED <<scope, callers, hooks, run>>

---------------------------------------------------------------------------
(* runHooks, lines 85-125 *)

ArgVals == {"instance"}

\* the explicit lists a dispatch is given instead of a type name
ExplicitLists ==
    { <<>>, <<Entry("n1", "f2"), Entry(NoName, "f1")>> }

\* line 86 without its test
noHooksArgumentUnchecked(kind) == FALSE

\* line 86: !hooks
noHooksArgument(kind) == kind = "none"

\* lines 90-97 with the parent's entries first
resolveHooksParentFirst(h, hookType) ==
    IF sequelizeOf(h) # NoHost
      THEN getHooks(hooks[sequelizeOf(h)], hookType)
             \o getHooks(hooks[h], hookType)
      ELSE getHooks(hooks[h], hookType)

\* lines 90-97: the entries of the host, then those of its sequelize
resolveHooks(h, hookType) ==
    IF sequelizeOf(h) # NoHost
      THEN getHooks(hooks[h], hookType)
             \o getHooks(hooks[sequelizeOf(h)], hookType)
      ELSE getHooks(hooks[h], hookType)

\* line 104 with no synchronous branch: every dispatch goes to Promise.each
isSyncNever(hookType) == FALSE

\* line 104 reading a missing descriptor as synchronous
isSyncByDefault(hookType) == ~Known(hookType) \/ hookTypes[hookType].sync

\* line 104
isSync(hookType) == Known(hookType) /\ hookTypes[hookType].sync

\* the call up to the loop: kind is "none" (no argument), "string" (a hook
\* type name), "array" or "single" (one function or entry, lines 99-101)
runHooksCall(h, kind, hookType, list, args) ==
    IF noHooksArgument(kind)
      THEN [IdleRun EXCEPT !.pc = "threw", !.host = h, !.kind = kind,
                           !.error = ArgumentError]
    ELSE LET type  == IF kind = "string" THEN hookType ELSE NoType
             arr   == IF kind = "string" THEN resolveHooks(h, hookType)
                      ELSE list
             sync  == isSync(type)
         IN  [ IdleRun EXCEPT
                 !.pc = IF sync THEN "sync" ELSE "pending",
                 !.host = h, !.kind = kind, !.hookType = type, !.sync = sync,
                 !.hooks = arr, !.n = Len(arr), !.args = args,
                 \* the for-of loop reads the array it was given: the store's
                 \* own array when getHooks found one and concat made no copy.
                 \* Promise.each has read the array when runHooks returns.
                 !.same = /\ sync
                          /\ kind = "string"
                          /\ sequelizeOf(h) = NoHost
                          /\ hookType \in DOMAIN hooks[h] ]

\* runHooks keeping the concatenation of line 95 as the host's list of the
\* type: the entries of the parent land in the store of the host
RunHooksStoring(h, kind, hookType, list, args) ==
    /\ run.pc \in {"idle", "returned", "threw", "resolved", "rejected"}
    /\ run.active = {}
    /\ run' = runHooksCall(h, kind, hookType, list, args)
    /\ hooks' = IF kind = "string" /\ sequelizeOf(h) # NoHost
                  THEN [hooks EXCEPT
                          ![h] = (hookType :> resolveHooks(h, hookType)) @@ @]
                  ELSE hooks
    /\ UNCHANGED <<scope, callers, last>>

RunHooks(h, kind, hookType, list, args) ==
    /\ run.pc \in {"idle", "returned", "threw", "resolved", "rejected"}
    /\ run.active = {}
    /\ run' = runHooksCall(h, kind, hookType, list, args)
    /\ UNCHANGED <<scope, callers, hooks, last>>

\* what a hook does when it is called
Outcomes == {"ok", "throw", "reject"}

\* one call of a hook: lines 106-111 and 118-123
Invocation(idx, out) ==
    [ idx |-> idx, fn |-> run.hooks[idx].fn, this |-> run.host,
      args |-> run.args, out |-> out ]

\* lines 105-112: the next hook of the loop; what it returns is dropped, what
\* it throws leaves runHooks
SyncHook(out) ==
    /\ run.pc = "sync"
    /\ run.i < Len(run.hooks)
    /\ run' = [ run EXCEPT
                  !.i = run.i + 1,
                  !.started = Append(run.started, run.i + 1),
                  !.log = Append(run.log, Invocation(run.i + 1, out)),
                  !.pc = IF out = "throw" THEN "threw" ELSE "sync",
                  !.error = IF out = "throw"
                              THEN HookError(run.i + 1, run.hooks[run.i + 1].fn)
                              ELSE NoFailure ]
    /\ UNCHANGED <<scope, callers, hooks, last>>

\* line 113
SyncReturn ==
    /\ run.pc = "sync"
    /\ run.i >= Len(run.hooks)
    /\ run' = [run EXCEPT !.pc = "returned"]
    /\ UNCHANGED <<scope, callers, hooks, last>>

\* line 123 without its return: Promise.each is handed undefined
iteratorReturnsNothing == "undefined"

\* line 123: the iterator hands the hook's result to Promise.each
iteratorReturns == "result"

\* Promise.each calls the iterator on the next item; it waits for what the
\* iterator returned when that is a promise
HookStart ==
    /\ run.pc = "pending"
    /\ run.i < Len(run.hooks)
    /\ run' = [ run EXCEPT
                  !.started = Append(run.started, run.i + 1),
                  !.active = run.active \cup {run.i + 1},
                  !.pc = IF iteratorReturns = "result" THEN "running"
                         ELSE "pending",
                  !.i = IF iteratorReturns = "result" THEN run.i
                        ELSE run.i + 1 ]
    /\ UNCHANGED <<scope, callers, hooks, last>>

\* a started hook completes; Promise.each goes on, or rejects with the
\* hook's error, when it waits for this hook
HookSettle(idx, out) ==
    /\ idx \in run.active
    /\ LET awaited == run.pc = "running" /\ idx = run.i + 1
       IN  run' = [ run EXCEPT
                      !.active = run.active \ {idx},
                      !.log = Append(run.log, Invocation(idx, out)),
                      !.pc = IF ~awaited THEN run.pc
                             ELSE IF out = "ok" THEN "pending" ELSE "rejected",
                      !.i = IF awaited /\ out = "ok" THEN run.i + 1 ELSE run.i,
                      !.error = IF awaited /\ out # "ok"
                                  THEN HookError(idx, run.hooks[idx].fn)
                                  ELSE run.error ]
    /\ UNCHANGED <<scope, callers, hooks, last>>

\* every item is done: .return() resolves with undefined
Finish ==
    /\ run.pc = "pending"
    /\ run.i = Len(run.hooks)
    /\ run' = [run EXCEPT !.pc = "resolved"]
    /\ UNCHANGED <<scope, callers, hooks, last>>

---------------------------------------------------------------------------
(* The specifications *)

\* the registration calls alone
NextReg ==
    \/ \E h \in callers, t \in scope, a \in AddInputs : AddHook(h, t, a.name, a.fn)
    \/ \E h \in callers, t \in scope, k \in Keys : RemoveHook(h, t, k.name, k.fn)
    \/ \E h \in callers, t \in scope : HasHook(h, t)
    \/ \E h \in callers, c \in SetupConfigs : SetupHooks(h, c)

SpecReg == InitReg /\ [][NextReg]_vars

\* dispatches, and the registration calls made between and during them
Next ==
    \/ \E h \in callers, t \in scope, a \in AddInputs : AddHook(h, t, a.name, a.fn)
    \/ \E h \in callers, t \in scope, k \in Keys : RemoveHook(h, t, k.name, k.fn)
    \/ \E h \in callers, t \in scope : HasHook(h, t)
    \/ \E h \in callers, a \in ArgVals : RunHooks(h, "none", NoType, <<>>, a)
    \/ \E h \in callers, a \in ArgVals, t \in scope :
         RunHooks(h, "string", t, <<>>, a)
    \/ \E h \in callers, a \in ArgVals, l \in ExplicitLists :
         RunHooks(h, "array", NoType, l, a)
    \/ \E h \in callers, a \in ArgVals, f \in Fns :
         RunHooks(h, "single", NoType, <<Entry(NoName, f)>>, a)
    \/ \E out \in Outcomes : SyncHook(out)
    \/ SyncReturn
    \/ HookStart
    \/ \E idx \in run.active, out \in Outcomes : HookSettle(idx, out)
    \/ Finish

SpecRun == Init /\ [][Next]_vars

---------------------------------------------------------------------------
(* Properties of the dispatcher *)

\* an asynchronous dispatch: one that went to Promise.each
Asynchronous == run.pc \in {"pending", "running", "resolved", "rejected"}

\* the first failure the log holds, 0 when it holds none
FirstFailure ==
    IF \E k \in 1..Len(run.log) : run.log[k].out # "ok"
      THEN CHOOSE k \in 1..Len(run.log) :
             /\ run.log[k].out # "ok"
             /\ \A j \in 1..(k - 1) : run.log[j].out = "ok"
      ELSE 0

(* C1: asynchronous fail-fast.  In an asynchronous dispatch, once a hook   *)
(* has failed (thrown or rejected), no hook after the first failing one    *)
(* has been started, nothing has completed after it, and the promise of    *)
(* runHooks is rejected with exactly that hook's error.                    *)
C1_AsyncFailFast ==
    (Asynchronous /\ FirstFailure # 0) =>
        LET failed == run.log[FirstFailure]
        IN  /\ \A k \in 1..Len(run.started) : run.started[k] <= failed.idx
            /\ Len(run.log) = FirstFailure
            /\ run.pc = "rejected"
            /\ run.error = HookError(failed.idx, run.hooks[failed.idx].fn)

\* three hooks, the second failed: the third never ran and runHooks is
\* rejected with the second hook's error
C1_Witness ==
    /\ run.pc = "rejected"
    /\ Len(run.hooks) = 3
    /\ Len(run.log) = 2
    /\ run.log[1].out = "ok"
    /\ run.log[2].out = "reject"
    /\ run.started = <<1, 2>>
    /\ run.error.idx = 2

(* C2: strict sequencing.  In an asynchronous dispatch at most one hook is *)
(* running; the hooks are started in the order of the resolved list, each  *)
(* being the entry of its index; and a hook is started only when every     *)
(* hook started before it has completed.                                   *)
C2_StrictSequence ==
    Asynchronous =>
        /\ Cardinality(run.active) <= 1
        /\ \A k \in 1..Len(run.started) : run.started[k] = k
        /\ \A k \in 1..Len(run.log) :
             /\ run.log[k].idx = k
             /\ run.log[k].fn = run.hooks[k].fn
        /\ Len(run.started) = Len(run.log) + Cardinality(run.active)
        /\ run.active \subseteq {Len(run.started)}

\* the third of three hooks runs after the first two have completed
C2_Witness ==
    /\ run.pc = "running"
    /\ Len(run.hooks) = 3
    /\ run.started = <<1, 2, 3>>
    /\ Len(run.log) = 2
    /\ run.active = {3}

\* the functions of the entries of an array, in order
RECURSIVE FnsOf(_)
FnsOf(arr) == IF arr = <<>> THEN <<>> ELSE <<Head(arr).fn>> \o FnsOf(Tail(arr))

\* the functions a dispatch has called, in the order of the calls
RECURSIVE Called(_)
Called(log) == IF log = <<>> THEN <<>> ELSE <<Head(log).fn>> \o Called(Tail(log))

\* this step is a call of runHooks (every registration call counts in last)
RunHooksStep ==
    /\ last' = last
    /\ run.pc \in {"idle", "returned", "threw", "resolved", "rejected"}
    /\ run'.pc \in {"sync", "pending", "threw"}
    /\ run'.started = <<>>

\* the entries the store of host h holds under a type, none for no host
Local(h, hookType) ==
    IF h # NoHost /\ hookType \in DOMAIN hooks[h] THEN hooks[h][hookType]
    ELSE <<>>

(* C7: inheritance order.  runHooks with a hook-type name resolves the     *)
(* host's own entries for the type, in their order, followed by the       *)
(* entries of the host's parent, in theirs (the own entries alone on a    *)
(* host with no parent); a dispatch, synchronous or not, calls the        *)
(* resolved entries in that order, and one that ends with no failure, and *)
(* during which no registration call was made, has called exactly them.   *)
C7_InheritanceOrder ==
    /\ [][ (RunHooksStep /\ run'.kind = "string") =>
             run'.hooks = Local(run'.host, run'.hookType)
                            \o Local(sequelizeOf(run'.host), run'.hookType)
         ]_vars
    /\ [] ( (run.kind = "string" /\ run.pc # "idle") =>
              /\ Len(run.log) <= Len(run.hooks)
              /\ Called(run.log) = SubSeq(FnsOf(run.hooks), 1, Len(run.log))
              /\ (run.pc \in {"resolved", "returned"} /\ last.n = 0) =>
                   Called(run.log) =
                     FnsOf(Local(run.host, run.hookType)
                             \o Local(sequelizeOf(run.host), run.hookType)) )

\* a host with no entries of its own has run the two entries of its parent
C7_Witness ==
    /\ run.pc = "resolved"
    /\ run.kind = "string"
    /\ run.host = "User"
    /\ Local("User", run.hookType) = <<>>
    /\ Len(Local("sequelize", run.hookType)) = 2
    /\ Called(run.log) = FnsOf(Local("sequelize", run.hookType))
    /\ last.n = 0

(* C10: runHooks called with no hook specification throws the error of    *)
(* line 86: no hook is started or called and no store changes.            *)
C10_NoArgument ==
    [][ (RunHooksStep /\ run'.kind = "none") =>
          /\ run'.pc = "threw"
          /\ run'.error = ArgumentError
          /\ run'.started = <<>> /\ run'.log = <<>> /\ run'.active = {}
          /\ hooks' = hooks
      ]_vars

\* the call was made on a host whose store holds hooks
C10_Witness ==
    /\ run.kind = "none"
    /\ run.pc = "threw"
    /\ run.error = ArgumentError
    /\ \E t \in DOMAIN hooks[run.host] : hooks[run.host][t] # <<>>

---------------------------------------------------------------------------
(* Properties of the registration calls *)

\* this step is the call of a registration operation
CallStep(op) == last'.n = last.n + 1 /\ last'.op = op

\* how many entries of an array hold the function, bare or named
RECURSIVE Count(_, _)
Count(arr, fn) ==
    IF arr = <<>> THEN 0
    ELSE (IF Head(arr).fn = fn THEN 1 ELSE 0) + Count(Tail(arr), fn)

\* the aliases of a hook type in the catalog
Aliases(hookType) ==
    IF hookType = "beforeSave" THEN {"beforeUpdate", "beforeCreate"}
    ELSE IF hookType = "afterSave" THEN {"afterUpdate", "afterCreate"}
    ELSE {}

\* the keys of a store and of the store after the step
KeysOf(h) == DOMAIN hooks[h] \cup DOMAIN hooks'[h]

(* C3: alias fan-out.  addHook(T, fn) for a catalog type T with aliases,   *)
(* on a host none of whose lists for T and its aliases contains fn, makes  *)
(* hasHook true for T and for each alias, and each of these lists holds fn *)
(* exactly once.  A successful addHook for a catalog type with no aliases  *)
(* appends the entry to that type's list and changes no other list.        *)
C3_AliasFanOut ==
    [][ CallStep("addHook") =>
          LET h == last'.host
              T == last'.hookType
              fn == last'.fn
          IN  /\ (Aliases(T) # {}
                    /\ \A t \in Aliases(T) \cup {T} :
                         Count(getHooks(hooks[h], t), fn) = 0) =>
                   \A t \in Aliases(T) \cup {T} :
                     /\ Truthy(hasHook(hooks'[h], t))
                     /\ Count(hooks'[h][t], fn) = 1
              /\ (Known(T) /\ Aliases(T) = {} /\ last'.threw = NoError) =>
                   /\ T \in DOMAIN hooks'[h]
                   /\ hooks'[h][T] =
                        Append(getHooks(hooks[h], T), Entry(last'.name, fn))
                   /\ \A t \in KeysOf(h) \ {T} :
                        /\ t \in DOMAIN hooks[h] /\ t \in DOMAIN hooks'[h]
                        /\ hooks'[h][t] = hooks[h][t]
              /\ \A g \in Hosts \ {h} : hooks'[g] = hooks[g]
      ]_vars

\* addHook("beforeSave", fn) has acted on a host whose beforeUpdate list held
\* another entry: the three lists hold fn once each
C3_Witness ==
    /\ last.op = "addHook" /\ last.hookType = "beforeSave"
    /\ last.name = NoName /\ last.threw = NoError
    /\ \A t \in {"beforeSave", "beforeUpdate", "beforeCreate"} :
         /\ Truthy(hasHook(hooks[last.host], t))
         /\ Count(hooks[last.host][t], last.fn) = 1
    /\ Len(hooks[last.host]["beforeUpdate"]) = 2

\* the removeHook call of this step has the key of the addHook call before it
SameKeyRemoved ==
    /\ last.op = "addHook" /\ last.threw = NoError
    /\ CallStep("removeHook")
    /\ last'.host = last.host /\ last'.hookType = last.hookType
    /\ IF last.name = NoName
         THEN last'.fn = last.fn /\ last'.name = NoName
         ELSE last'.name = last.name /\ last'.fn = NoFn

(* C4: removal symmetry.  On a host with no entries under T or an alias of *)
(* T, addHook(T, fn) followed by removeHook(T, fn), or addHook(T, name,    *)
(* fn) followed by removeHook(T, name), leaves hasHook false for T and for *)
(* every alias of T.                                                       *)
C4_RemovalSymmetry ==
    [][ (SameKeyRemoved /\ last.fresh) =>
          /\ last'.threw = NoError
          /\ \A t \in Aliases(last.hookType) \cup {last.hookType} :
               /\ ~Truthy(hasHook(hooks'[last.host], t))
               /\ getHooks(hooks'[last.host], t) = <<>>
      ]_vars

\* addHook("beforeSave", name, fn) then removeHook("beforeSave", name): the
\* three lists were made and are empty again
C4_Witness ==
    /\ last.n = 2 /\ last.op = "removeHook" /\ last.changed
    /\ last.hookType = "beforeSave" /\ last.name # NoName
    /\ \A t \in {"beforeSave", "beforeUpdate", "beforeCreate"} :
         /\ t \in DOMAIN hooks[last.host]
         /\ hooks[last.host][t] = <<>>

(* C5: named and bare removal.  removeHook with a name never removes a     *)
(* bare entry and removeHook with a callback never removes a named entry,  *)
(* whatever callback it wraps.  When the host has entries for the type,    *)
(* the lists of the type and of its aliases lose exactly the named entries *)
(* of that name, or exactly the bare entries that are that callback, and   *)
(* keep the others in their order; every other list is unchanged.          *)
C5_NamedVsBare ==
    [][ CallStep("removeHook") =>
          LET h == last'.host
              T == last'.hookType
              byName == last'.fn = NoFn
              Matches(e) == IF byName THEN IsObject(e) /\ e.name = last'.name
                            ELSE IsFunction(e) /\ e.fn = last'.fn
              Other(e) == IF byName THEN IsFunction(e) ELSE IsObject(e)
              Kept(e) == ~Matches(e)
              acts == Truthy(hasHook(hooks[h], T))
          IN  /\ DOMAIN hooks'[h] = DOMAIN hooks[h]
              /\ \A t \in DOMAIN hooks[h] :
                   /\ SelectSeq(hooks'[h][t], Other) = SelectSeq(hooks[h][t], Other)
                   /\ hooks'[h][t] =
                        IF acts /\ t \in Aliases(T) \cup {T}
                          THEN SelectSeq(hooks[h][t], Kept)
                          ELSE hooks[h][t]
      ]_vars

\* removeHook(T, f) has removed the bare f and left the named entry that
\* wraps f
C5_Witness ==
    /\ last.op = "removeHook" /\ last.fn # NoFn /\ last.changed
    /\ hooks[last.host][last.hookType] = <<Entry("n1", last.fn)>>

\* the host-restricted hook types
Restricted ==
    { "beforeDefine", "afterDefine", "beforeInit", "afterInit",
      "beforeConnect", "afterConnect", "beforeBulkSync", "afterBulkSync" }

(* C6: restriction enforcement.  addHook for a host-restricted hook type   *)
(* on a host that has a parent throws and leaves every list of the host's  *)
(* store as it was; on a host without a parent the same call succeeds and  *)
(* appends the entry.  The first conjunct states it of the calls made, the *)
(* second of every restricted type of the catalog on every store reached.  *)
C6_Restriction ==
    /\ [][ (CallStep("addHook") /\ last'.hookType \in Restricted) =>
             IF sequelizeOf(last'.host) # NoHost
               THEN /\ last'.threw = RestrictionError
                    /\ last'.ret # last'.host
                    /\ hooks' = hooks
               ELSE /\ last'.threw = NoError
                    /\ last'.ret = last'.host
                    /\ hooks'[last'.host][last'.hookType] =
                         Append(getHooks(hooks[last'.host], last'.hookType),
                                Entry(last'.name, last'.fn))
         ]_vars
    /\ [] ( \A h \in Hosts, T \in Restricted, a \in AddInputs :
              LET r == addHook(h, hooks[h], T, a.name, a.fn)
              IN  IF sequelizeOf(h) # NoHost
                    THEN r.threw = RestrictionError /\ r.store = hooks[h]
                    ELSE /\ r.threw = NoError
                         /\ r.store[T] = Append(getHooks(hooks[h], T),
                                                Entry(a.name, a.fn)) )

\* the call was refused on a model whose sequelize accepted it
C6_Witness ==
    /\ last.op = "addHook" /\ last.host = "User"
    /\ last.hookType \in Restricted
    /\ last.threw = RestrictionError
    /\ hooks["User"] = EmptyStore
    /\ Truthy(hasHook(hooks["sequelize"], last.hookType))

(* C8, as claimed: addHook with a hook-type name the catalog does not hold *)
(* succeeds, appends the entry to that type's list alone and returns the   *)
(* host.                                                                   *)
C8_UnknownTypeAdds ==
    [][ (CallStep("addHook") /\ ~Known(last'.hookType)) =>
          /\ last'.threw = NoError
          /\ last'.ret = last'.host
          /\ last'.hookType \in DOMAIN hooks'[last'.host]
          /\ hooks'[last'.host][last'.hookType] =
               Append(getHooks(hooks[last'.host], last'.hookType),
                      Entry(last'.name, last'.fn))
      ]_vars

(* C9: hasHook(T) is true exactly when the host's own list for the literal *)
(* type T is non-empty, whatever the lists of T's aliases, of the types T  *)
(* is an alias of, and of the parent hold.                                 *)
C9_HasHookLiteral ==
    last.op = "hasHook" =>
        ( Truthy(last.ret) <=>
            /\ last.hookType \in DOMAIN hooks[last.host]
            /\ Len(hooks[last.host][last.hookType]) > 0 )

\* addHook("beforeUpdate", fn) on the host and addHook("beforeSave", fn) on
\* its parent, then hasHook("beforeSave") on the host: not true
C9_Witness ==
    /\ last.op = "hasHook" /\ last.host = "User"
    /\ last.hookType = "beforeSave" /\ ~Truthy(last.ret)
    /\ Truthy(hasHook(hooks["User"], "beforeUpdate"))
    /\ Truthy(hasHook(hooks["sequelize"], "beforeSave"))


\* the types the catalog marks synchronous
SyncTypes == {t \in CatalogNames : hookTypes[t].sync}

(* C11: synchronous mode.  runHooks with the name of a type the catalog    *)
(* marks synchronous calls the resolved entries in order inside the call   *)
(* and hands back no promise: nothing is pending or awaited.  A hook that  *)
(* throws ends the call with its error and no later hook is called; what a *)
(* hook returns, a rejected promise included, is dropped and the loop goes *)
(* on to the next hook.                                                    *)
C11_SyncMode ==
    /\ [][ (RunHooksStep /\ run'.kind = "string"
                         /\ run'.hookType \in SyncTypes) =>
             (run'.sync /\ run'.pc = "sync") ]_vars
    /\ [] ( run.sync =>
              /\ run.pc \in {"sync", "returned", "threw"}
              /\ run.active = {}
              /\ Len(run.started) = Len(run.log)
              /\ \A k \in 1..Len(run.log) :
                   /\ run.started[k] = k
                   /\ run.log[k].idx = k
                   /\ run.log[k].fn = run.hooks[k].fn
                   /\ run.log[k].out = "throw" =>
                        /\ k = Len(run.log)
                        /\ run.pc = "threw"
                        /\ run.error = HookError(k, run.hooks[k].fn)
              /\ (run.pc = "threw") =>
                   /\ run.log # <<>>
                   /\ run.log[Len(run.log)].out = "throw"
              /\ (run.pc = "returned") =>
                   /\ Len(run.log) >= Len(run.hooks)
                   /\ run.error = NoFailure )

\* the first hook returned a rejected promise, the second was called all the
\* same and threw, the third was never called
C11_Witness ==
    /\ run.sync
    /\ run.pc = "threw"
    /\ Len(run.hooks) >= 3
    /\ Len(run.log) = 2
    /\ run.log[1].out = "reject"
    /\ run.log[2].out = "throw"
    /\ run.error.idx = 2

\* a holds entries of b, each at most as often, in the order b holds them
RECURSIVE IsSubseq(_, _)
IsSubseq(a, b) ==
    IF a = <<>> THEN TRUE
    ELSE IF b = <<>> THEN FALSE
    ELSE IF Head(a) = Head(b) THEN IsSubseq(Tail(a), Tail(b))
    ELSE IsSubseq(a, Tail(b))

(* C12: order preservation.  addHook leaves the entries a list holds where *)
(* they are and puts the new entry after them; removeHook leaves in each   *)
(* list entries the list held, no entry more often than before, in the     *)
(* order the list held them.  Every list so holds its surviving entries in *)
(* the order of their registration.                                        *)
C12_OrderPreserved ==
    [][ \A h \in Hosts : \A t \in DOMAIN hooks'[h] :
          LET old == Local(h, t)
              new == hooks'[h][t]
          IN  /\ CallStep("addHook") =>
                   \/ new = old
                   \/ /\ Len(new) = Len(old) + 1
                      /\ SubSeq(new, 1, Len(old)) = old
                      /\ new[Len(new)].fn = last'.fn
              /\ CallStep("removeHook") => IsSubseq(new, old) ]_vars

\* f1 and f2 were registered in this order and removeHook(f1) has left f2
C12_Witness ==
    \E h \in Hosts : \E t \in DOMAIN hooks[h] :
        /\ last.n = 3
        /\ last.op = "removeHook"
        /\ last.host = h
        /\ last.hookType = t
        /\ last.fn = "f1"
        /\ last.changed
        /\ FnsOf(hooks[h][t]) = <<"f2">>

(* C15: removal guard.  removeHook(T, key) on a host whose list under the  *)
(* very name T is absent or empty changes no list of the host, the lists   *)
(* of the aliases of T that hold entries matching key included, and hands  *)
(* back the host.                                                          *)
C15_RemovalGuard ==
    [][ \A h \in Hosts :
          ( /\ CallStep("removeHook")
            /\ last'.host = h
            /\ Len(Local(h, last'.hookType)) = 0 ) =>
              /\ hooks' = hooks
              /\ last'.threw = NoError
              /\ last'.ret = h ]_vars

\* the entry named n1 is under beforeUpdate alone: removeHook('beforeSave',
\* 'n1') has left it there
C15_Witness ==
    \E h \in Hosts :
        /\ last.op = "removeHook"
        /\ last.host = h
        /\ last.hookType = "beforeSave"
        /\ last.name = "n1"
        /\ last.ret = h
        /\ Len(Local(h, "beforeSave")) = 0
        /\ \E k \in 1..Len(Local(h, "beforeUpdate")) :
             hooks[h]["beforeUpdate"][k].name = "n1"

\* the callbacks a dispatch is given one at a time instead of a list
ExplicitSingles == { <<Entry(NoName, f)>> : f \in Fns }

(* C14: explicit-list dispatch.  runHooks given a list of entries, or one  *)
(* callback, instead of a type name takes the asynchronous path, never the *)
(* synchronous one, with exactly the given entries in the given order; it  *)
(* changes no store and takes no entry from one; it calls the given        *)
(* entries in order, and all of them when it resolves.                     *)
C14_ExplicitList ==
    /\ [][ (RunHooksStep /\ run'.kind \in {"array", "single"}) =>
             /\ run'.kind = "array" => run'.hooks \in ExplicitLists
             /\ run'.kind = "single" => run'.hooks \in ExplicitSingles
             /\ run'.n = Len(run'.hooks)
             /\ ~run'.sync
             /\ run'.pc = "pending"
             /\ run'.hookType = NoType
             /\ hooks' = hooks ]_vars
    /\ [][ (run.kind \in {"array", "single"} /\ ~RunHooksStep) =>
             (run'.hooks = run.hooks /\ ~run'.sync) ]_vars
    /\ [] ( run.kind \in {"array", "single"} =>
              /\ Asynchronous
              /\ Len(run.log) <= Len(run.hooks)
              /\ Called(run.log) = SubSeq(FnsOf(run.hooks), 1, Len(run.log))
              /\ (run.pc = "resolved") => Len(run.log) = Len(run.hooks) )

\* a list of two entries was given on a host whose store holds entries, and
\* the dispatch has resolved: it called the two given entries
C14_Witness ==
    /\ run.kind = "array"
    /\ run.pc = "resolved"
    /\ Called(run.log) = <<"f2", "f1">>
    /\ hooks[run.host] # EmptyStore
    /\ \E t \in DOMAIN hooks[run.host] : Len(hooks[run.host][t]) > 0

\* a dispatch that has begun and not ended
InFlight == run.pc \in {"sync", "pending", "running"}

(* C19: dispatch snapshot under removal.  A removeHook call made while a   *)
(* dispatch is in flight takes nothing from the entries the dispatch runs: *)
(* removeHook stores new lists and the dispatch keeps the list it has, so  *)
(* an entry the call removed from the store, and that the dispatch has not *)
(* reached yet, is still called; a dispatch that ends with no failure has  *)
(* called every entry of its list.                                         *)
C19_RemovalSnapshot ==
    /\ [][ (CallStep("removeHook") /\ InFlight) =>
             /\ run'.hooks = run.hooks
             /\ run'.i = run.i
             /\ run'.pc = run.pc
             /\ run'.log = run.log ]_vars
    /\ [] ( run.pc \in {"returned", "resolved"} =>
              Called(run.log) = FnsOf(run.hooks) )

\* the synchronous loop has called the first of two hooks, which removed the
\* second from the store: the store holds f1 alone and the loop still has f2
\* to call
C19_Witness ==
    /\ run.pc = "sync"
    /\ run.kind = "string"
    /\ run.i = 1
    /\ FnsOf(run.hooks) = <<"f1", "f2">>
    /\ last.op = "removeHook"
    /\ last.host = run.host
    /\ last.hookType = run.hookType
    /\ last.fn = "f2"
    /\ last.changed
    /\ sequelizeOf(run.host) = NoHost
    /\ FnsOf(Local(run.host, run.hookType)) = <<"f1">>

(* C18: dispatch snapshot under registration.  An addHook call made while  *)
(* a dispatch is in flight adds nothing to the entries the dispatch runs:  *)
(* the dispatch calls the entries resolved when it began, on a host with a *)
(* parent or without one, synchronous or not.                              *)
C18_AddSnapshot ==
    [][ (CallStep("addHook") /\ InFlight) =>
          /\ run'.hooks = run.hooks
          /\ run'.i = run.i
          /\ run'.pc = run.pc ]_vars

\* the dispatches that cannot iterate an array of the store: the
\* asynchronous ones, those given a list, those on a host with a parent
Copied ==
    \/ ~run.sync
    \/ run.kind # "string"
    \/ sequelizeOf(run.host) # NoHost

\* the same, for the dispatches that do not iterate an array of the store
AddSnapshotOfCopy ==
    [][ (CallStep("addHook") /\ InFlight /\ Copied) =>
          /\ run'.hooks = run.hooks
          /\ run'.i = run.i
          /\ run'.pc = run.pc ]_vars

\* a synchronous dispatch on a host with no parent began with one entry and
\* has called two: the second is the one its first hook registered
LiveArrayCalled ==
    /\ run.sync
    /\ run.same
    /\ last.n = 1
    /\ last.op = "addHook"
    /\ last.host = run.host
    /\ last.hookType = run.hookType
    /\ Len(run.log) = 2
    /\ run.log[2].fn = last.fn
    /\ Len(Local(run.host, run.hookType)) = 2

\* the call of index k of the log failed for the dispatch: it threw, or, the
\* dispatch waiting for what it returns, returned a promise that rejected
HookFailed(k) ==
    \/ run.log[k].out = "throw"
    \/ ~run.sync /\ run.log[k].out = "reject"

\* the states Succeeded and Failed of a dispatch
Succeeded == run.pc \in {"returned", "resolved"}
Failed == run.pc \in {"threw", "rejected"} /\ run.kind # "none"

\* every call so far is a call of the entry of its index, once, on the host,
\* with the arguments of the dispatch
InOrderOnce ==
    /\ \A k \in 1..Len(run.started) : run.started[k] = k
    /\ \A k \in 1..Len(run.log) :
         /\ run.log[k].idx = k
         /\ run.log[k].fn = run.hooks[k].fn
         /\ run.log[k].this = run.host
         /\ run.log[k].args = run.args

\* the ends of a dispatch: Succeeded with every entry called and none
\* failed, Failed with the error of the first hook that failed, the last
\* hook called
Terminal ==
    /\ Succeeded =>
         /\ Len(run.log) = Len(run.hooks)
         /\ \A k \in 1..Len(run.log) : ~HookFailed(k)
    /\ Failed =>
         /\ run.log # <<>>
         /\ HookFailed(Len(run.log))
         /\ \A k \in 1..(Len(run.log) - 1) : ~HookFailed(k)
         /\ Len(run.started) = Len(run.log)
         /\ run.error = HookError(Len(run.log), run.hooks[Len(run.log)].fn)
    /\ (~InFlight /\ run.kind \in {"string", "array", "single"}) =>
         (Succeeded \/ Failed)

(* C16: dispatch state machine.  A dispatch over a resolved list of n      *)
(* entries makes at most n hook calls, each entry being called at most     *)
(* once, in order, on the host and with the arguments of the dispatch; it  *)
(* ends Succeeded exactly when every one of the n entries was called and   *)
(* none failed, and otherwise Failed(i) with the error of the first hook   *)
(* that failed, no hook being called after it and none called again.       *)
C16_StateMachine ==
    run.kind \in {"string", "array", "single"} =>
        /\ Len(run.started) <= run.n
        /\ Len(run.log) <= run.n
        /\ InOrderOnce
        /\ Terminal
        /\ Succeeded => Len(run.log) = run.n

\* the same for the dispatches that do not iterate an array of the store
StateMachineOfCopy ==
    (run.kind \in {"string", "array", "single"} /\ Copied) =>
        /\ Len(run.started) <= run.n
        /\ Len(run.log) <= run.n
        /\ Len(run.hooks) = run.n
        /\ InOrderOnce
        /\ Terminal

\* the synchronous loop began with the one entry of the stored array and has
\* made a second call, of the entry its first hook pushed on that array
MoreCallsThanResolved ==
    /\ run.sync
    /\ run.n = 1
    /\ Len(run.log) = 2
    /\ last.op = "addHook"
    /\ run.log[2].fn = last.fn

---------------------------------------------------------------------------
(* Properties of the bulk setup *)

\* the callbacks a configuration item gives
CallbacksOf(item) == IF item[2] THEN item[3] ELSE <<item[3]>>

\* the callbacks a configuration registers for a type, its own and those of
\* the types that have it as an alias, in the order of the configuration
RECURSIVE RegisteredFor(_, _)
RegisteredFor(config, hookType) ==
    IF config = <<>> THEN <<>>
    ELSE LET item == Head(config)
             here == IF item[1] = hookType \/ hookType \in Aliases(item[1])
                       THEN CallbacksOf(item) ELSE <<>>
         IN  here \o RegisteredFor(Tail(config), hookType)

\* the host may register every type of the configuration
MayRegister(h, config) ==
    \A k \in 1..Len(config) :
        ~(config[k][1] \in Restricted /\ sequelizeOf(h) # NoHost)

\* the entries the store of host h holds under a type after the step
LocalAfter(h, hookType) ==
    IF hookType \in DOMAIN hooks'[h] THEN hooks'[h][hookType] ELSE <<>>

(* C17: bulk setup.  _setupHooks(config), for a configuration whose types  *)
(* the host may register, discards every entry the host's store held and   *)
(* registers each callback of the configuration in order, one callback     *)
(* given alone counting as a list of one: afterwards the list of every     *)
(* type holds exactly the callbacks the configuration registers for it,    *)
(* those of the types that have it as an alias included, as bare entries.  *)
C17_BulkSetup ==
    [][ \A h \in Hosts :
          ( /\ CallStep("_setupHooks")
            /\ last'.host = h
            /\ MayRegister(h, last'.config) ) =>
              /\ last'.threw = NoError
              /\ \A t \in CatalogNames \cup scope \cup DOMAIN hooks'[h] :
                   /\ FnsOf(LocalAfter(h, t)) = RegisteredFor(last'.config, t)
                   /\ \A k \in 1..Len(LocalAfter(h, t)) :
                        LocalAfter(h, t)[k].name = NoName ]_vars

\* the same for the configurations whose types are all in the catalog
BulkSetupOfCatalog ==
    [][ \A h \in Hosts :
          ( /\ CallStep("_setupHooks")
            /\ last'.host = h
            /\ MayRegister(h, last'.config)
            /\ \A k \in 1..Len(last'.config) : Known(last'.config[k][1]) ) =>
              /\ last'.threw = NoError
              /\ \A t \in CatalogNames \cup scope \cup DOMAIN hooks'[h] :
                   /\ FnsOf(LocalAfter(h, t)) = RegisteredFor(last'.config, t)
                   /\ \A k \in 1..Len(LocalAfter(h, t)) :
                        LocalAfter(h, t)[k].name = NoName ]_vars

\* _setupHooks with a callback for a type the catalog does not hold has
\* thrown, and the store holds nothing under the type
SetupUnknownThrew ==
    /\ last.op = "_setupHooks"
    /\ \E k \in 1..Len(last.config) : ~Known(last.config[k][1])
    /\ last.threw = TypeError
    /\ \A k \in 1..Len(last.config) : Len(Local(last.host, last.config[k][1])) = 0

\* _setupHooks on a store that held entries: beforeSave with two callbacks
\* and beforeUpdate with one leave f2, f1 under beforeSave and beforeCreate
\* and f2, f1, f1 under beforeUpdate, and no entry of before
SetupFanOut ==
    /\ last.n = 3
    /\ last.op = "_setupHooks"
    /\ last.threw = NoError
    /\ Len(last.config) = 2
    /\ last.config[1][1] = "beforeSave"
    /\ FnsOf(Local(last.host, "beforeSave")) = <<"f2", "f1">>
    /\ FnsOf(Local(last.host, "beforeCreate")) = <<"f2", "f1">>
    /\ FnsOf(Local(last.host, "beforeUpdate")) = <<"f2", "f1", "f1">>

(* C20: alias lists are defined.  After _setupHooks and any addHook and    *)
(* removeHook calls, on every host and for every catalog type T whose list *)
(* holds an entry, the store has a list, empty or not, for each alias of   *)
(* T; so removeHook of a catalog type, which filters the alias lists when  *)
(* the list of T holds an entry, never throws.                             *)
C20_AliasListsDefined ==
    /\ \A h \in Hosts : \A t \in CatalogNames :
         Len(Local(h, t)) > 0 => Aliases(t) \subseteq DOMAIN hooks[h]
    /\ (last.op = "removeHook" /\ last.hookType \in CatalogNames) =>
         last.threw = NoError

\* after two other calls, removeHook('beforeSave', key) has filtered the
\* three lists and taken an entry out, one alias list being empty
C20_Witness ==
    /\ last.n = 3
    /\ last.op = "removeHook"
    /\ last.hookType = "beforeSave"
    /\ last.changed
    /\ last.threw = NoError
    /\ {"beforeSave", "beforeUpdate", "beforeCreate"} \subseteq DOMAIN hooks[last.host]
    /\ hooks[last.host]["beforeUpdate"] = <<>>
    /\ Len(hooks[last.host]["beforeCreate"]) > 0

---------------------------------------------------------------------------
(* Properties of the stores *)

(* C13: host independence.  A registration call on a host changes the      *)
(* store of no other host, the parent of the host and the hosts that share *)
(* its parent included; a runHooks call and the hook calls of its dispatch *)
(* change no store at all, so a dispatch on a host puts no entry of the    *)
(* parent in the host's store and no entry of the host in the parent's.    *)
C13_HostIndependence ==
    [][ /\ \A h \in Hosts :
             (last'.n = last.n + 1 /\ last'.host = h) =>
                 \A g \in Hosts \ {h} : hooks'[g] = hooks[g]
        /\ (last' = last) => hooks' = hooks ]_vars

\* two models of one instance: a dispatch on User has run User's entry and
\* the instance's, and addHook on Task has put an entry in Task's store; the
\* stores of User and of the instance hold their one entry each
C13_Witness ==
    /\ callers = {"User", "Task"}
    /\ run.host = "User"
    /\ run.kind = "string"
    /\ run.pc = "resolved"
    /\ Len(run.hooks) = 2
    /\ Len(run.log) = 2
    /\ Len(Local("User", run.hookType)) = 1
    /\ Len(Local("sequelize", run.hookType)) = 1
    /\ last.op = "addHook"
    /\ last.host = "Task"
    /\ last.changed
    /\ Len(Local("Task", run.hookType)) >= 1
=============================================================================
